---- MODULE Spec2Model ----
(***************************************************************************)
(* A model of housing.py: the apartment listing scraper (Apartment), the   *)
(* review sources (Yelp, GoogleMap), the session-header cache              *)
(* (get_headers), the aggregator (crawl) and the report renderer           *)
(* (to_html).                                                              *)
(*                                                                         *)
(* Texts that the code parses are sequences of one-character strings.      *)
(* Python's None is the model value None.  Each component has its own      *)
(* specification (SpecPages, SpecGetPage, SpecList, SpecMemo, SpecCrawl,   *)
(* SpecHeaders); the variables of the other components stay at their idle  *)
(* value.                                                                  *)
(***************************************************************************)
EXTENDS Integers, Sequences, FiniteSets, TLC

VARIABLES
    \* ---- Apartment.pages
    span,          \* page 1's first span.pageRange: NoSpan, or its contents[0] text
    _pages,        \* Apartment._pages
    pagesRet,      \* what the last read of Apartment.pages returned (or raised)
    soupCalls,     \* number of _soup(1) fetches issued by Apartment.pages
    \* ---- Apartment.get_page
    placards,      \* the article.placard elements of the fetched page
    pageRet,       \* what get_page returned (NotCalled before the call)
    pageErrors,    \* number of logger.error lines written by get_page
    \* ---- Apartment.get_list
    pageRange,     \* what self.pages returned to get_list: <<first, last>>
    site,          \* site[p]: the cards of page p of the listing site
    futures,       \* futures[p]: the outcome of the task pool.submit(get_page, p)
    completed,     \* the pages in the order their tasks completed
    awaited,       \* number of results the loop of get_list has consumed
    ret,           \* the list ret of get_list
    listRet,       \* the outcome of get_list
    \* ---- get_headers (functools.lru_cache)
    cache,         \* the URLs whose headers the lru_cache holds
    launched,      \* launched[u]: browser sessions launched for URL u
    hthread,       \* hthread[t]: where thread t is inside get_headers, and its URL
    calls,         \* calls[u]: calls of get_headers(u) made so far
    overlapped,    \* URLs for which a call began while another one was running
    \* ---- one GoogleMap instance and one Yelp instance
    gmap,          \* the GoogleMap instance: its url and _rating
    yelp,          \* the Yelp instance: its _page_url, _headers and _review
    queries,       \* network queries issued: places searches, POSTs, GETs
    reads,         \* reads of the memoized properties made so far
    \* ---- crawl and to_html
    listing,       \* the cards of page 1 of the listing site
    posts,         \* the Post objects crawl enriches (the tasks write to them)
    gfut,          \* gfut[i]: the task _get_google_result(posts[i])
    answers,       \* answers[i]: what find_place answered to task i, if asked
    gdone,         \* the tasks in the order they completed
    joined,        \* futures the as_completed loop has consumed
    results,       \* the list the loop builds
    crawlRet,      \* the outcome of crawl
    html           \* the outcome of to_html(crawl(url))

\* Python's None, and a value that is not None: an optional value is a sequence
\* of at most one element.
None == <<>>

Some(v) == <<v>>

varsPages == <<span, _pages, pagesRet, soupCalls>>
varsGetPage == <<placards, pageRet, pageErrors>>
varsList == <<pageRange, site, futures, completed, awaited, ret, listRet>>
varsHeaders == <<cache, launched, hthread, calls, overlapped>>
varsMemo == <<gmap, yelp, queries, reads>>
varsCrawl == <<listing, posts, gfut, answers, gdone, joined, results, crawlRet, html>>
vars == <<varsPages, varsGetPage, varsList, varsHeaders, varsMemo, varsCrawl>>

\* the variables of the other components
notPages == <<varsGetPage, varsList, varsHeaders, varsMemo, varsCrawl>>
notGetPage == <<varsPages, varsList, varsHeaders, varsMemo, varsCrawl>>
notList == <<varsPages, varsGetPage, varsHeaders, varsMemo, varsCrawl>>
notHeaders == <<varsPages, varsGetPage, varsList, varsMemo, varsCrawl>>
notMemo == <<varsPages, varsGetPage, varsList, varsCrawl>>
notCrawl == <<varsPages, varsGetPage, varsList, varsHeaders, varsMemo>>

(***************************************************************************)
(* Bounds of the model.                                                    *)
(***************************************************************************)
MaxDigits == 2      \* longest digit run of a pagination marker
MaxReads == 3       \* reads of one memoized property
MaxPlacards == 3    \* listing cards on one page
MaxPage == 3        \* last page number of a page range
MaxCalls == 3       \* calls of get_headers with one URL
NThreads == 2       \* threads that call get_headers
MaxCards == 4       \* listing cards on page 1 of the site crawl reads

(***************************************************************************)
(* Character texts.                                                        *)
(***************************************************************************)
DigitChars == {"0", "1", "2", "3", "4", "5", "6", "7", "8", "9"}

DigitVal(c) ==
    CASE c = "0" -> 0 [] c = "1" -> 1 [] c = "2" -> 2 [] c = "3" -> 3
      [] c = "4" -> 4 [] c = "5" -> 5 [] c = "6" -> 6 [] c = "7" -> 7
      [] c = "8" -> 8 [] c = "9" -> 9

\* int(s) for a text s of decimal digits
RECURSIVE int(_)
int(s) ==
    IF Len(s) = 0 THEN 0
    ELSE 10 * int(SubSeq(s, 1, Len(s) - 1)) + DigitVal(s[Len(s)])

\* the literal parts of the pattern r'Page (\d+) of (\d)+'
PageLit == <<"P", "a", "g", "e", " ">>
OfLit == <<" ", "o", "f", " ">>

\* text t holds the literal lit at position i
LitAt(t, lit, i) ==
    /\ i >= 1
    /\ i + Len(lit) - 1 <= Len(t)
    /\ SubSeq(t, i, i + Len(lit) - 1) = lit

\* positions i..j of t are all digits (and the run is not empty)
DigitRun(t, i, j) ==
    /\ 1 <= i
    /\ i <= j
    /\ j <= Len(t)
    /\ \A k \in i..j : t[k] \in DigitChars

\* the end of the longest digit run of t that starts at i
RunEnd(t, i) ==
    CHOOSE j \in i..Len(t) :
        /\ DigitRun(t, i, j)
        /\ (j = Len(t) \/ t[j + 1] \notin DigitChars)

\* The pattern matches t from position i: "Page ", a digit run, " of ", a digit.
\* (\d+ is followed by a literal space, so the run it takes is the longest one.)
MatchAt(t, i) ==
    /\ LitAt(t, PageLit, i)
    /\ i + Len(PageLit) <= Len(t)
    /\ t[i + Len(PageLit)] \in DigitChars
    /\ LET j == RunEnd(t, i + Len(PageLit))
       IN  /\ LitAt(t, OfLit, j + 1)
           /\ j + Len(OfLit) + 1 <= Len(t)
           /\ t[j + Len(OfLit) + 1] \in DigitChars

\* group 2 of the pattern, (\d)+ : a repeated group keeps its LAST repetition,
\* that is the last digit of the run.
GroupTwo(t, s) == <<t[RunEnd(t, s)]>>

\* re.search(pattern, t).groups(), or None: the leftmost match
search(t) ==
    IF \E i \in 1..Len(t) : MatchAt(t, i)
    THEN LET i == CHOOSE k \in 1..Len(t) :
                      MatchAt(t, k) /\ \A m \in 1..(k - 1) : ~MatchAt(t, m)
             s1 == i + Len(PageLit)
             e1 == RunEnd(t, s1)
             s2 == e1 + Len(OfLit) + 1
         IN  <<SubSeq(t, s1, e1), GroupTwo(t, s2)>>
    ELSE None

(***************************************************************************)
(* Apartment.pages                                                         *)
(***************************************************************************)
NoSpan == None

\* the outcome of a call: not made yet, returned a value, or raised
NotCalled == [status |-> "NotCalled", value |-> <<>>]

Returned(v) == [status |-> "returned", value |-> v]

Raised == [status |-> "raised", value |-> <<>>]

\* digit texts of 1..MaxDigits characters over the digits the markers use
MarkerDigits == {"0", "2", "3", "8"}

DigitTexts == UNION {[1..n -> MarkerDigits] : n \in 1..MaxDigits}

\* the text "Page X of Y"
PageText(x, y) == PageLit \o x \o OfLit \o y

\* texts that the pattern does not match
OtherTexts ==
    { <<"N", "e", "x", "t">>,
      PageLit \o <<"3">>,
      PageLit \o <<"3">> \o OfLit,
      <<"p", "a", "g", "e", " ", "3", " ", "o", "f", " ", "8">> }

\* texts that hold a marker among other characters
EmbeddedTexts ==
    { <<"(">> \o PageText(<<"2">>, <<"3", "8">>) \o <<")">>,
      PageText(<<"2">>, <<"3">>) \o <<" ">> \o PageText(<<"3">>, <<"8">>) }

\* page 1's markup: no span.pageRange at all, a span without contents
\* (Some(<<>>)), or a span whose contents[0] is a text
Spans ==
    {NoSpan, Some(<<>>)}
        \cup {Some(t) : t \in OtherTexts \cup EmbeddedTexts}
        \cup {Some(PageText(x, y)) : x, y \in DigitTexts}

\* the value the property stores in _pages for page-1 markup sp whose span,
\* if any, has contents
ParsePages(sp) ==
    IF sp = NoSpan THEN <<1, 1>>
    ELSE LET match == search(sp[1])
         IN  IF match /= None THEN <<int(match[1]), int(match[2])>>
             ELSE <<1, 1>>

PagesIdle ==
    /\ span = NoSpan
    /\ _pages = None
    /\ pagesRet = NotCalled
    /\ soupCalls = 0

\* a read of the property Apartment.pages; pages[0].contents[0] raises
\* IndexError for a span without contents, and _pages stays unset
ReadPages ==
    /\ soupCalls < MaxReads
    /\ IF _pages = None
       THEN /\ soupCalls' = soupCalls + 1
            /\ IF span = Some(<<>>)
               THEN /\ _pages' = _pages
                    /\ pagesRet' = Raised
               ELSE /\ _pages' = ParsePages(span)
                    /\ pagesRet' = Returned(ParsePages(span))
       ELSE /\ pagesRet' = Returned(_pages)
            /\ UNCHANGED <<_pages, soupCalls>>
    /\ UNCHANGED span
    /\ UNCHANGED notPages

(***************************************************************************)
(* Apartment.get_page                                                      *)
(***************************************************************************)
\* One article.placard.  id names the card (its title, href and texts are
\* written <<"title", id>>, ...); the flags say which elements it holds:
\*   titleDiv, titleP   div.property-title, p.property-title
\*   anchor, href       a.property-link, and its href attribute
\*   pricing, rents, range   p.property-pricing, span.property-rents,
\*                           div.price-range
\*   special            p.property-specials
\*   addresses          the number of div.property-address elements
TitleLinkShapes ==
    { [titleDiv |-> TRUE,  titleP |-> FALSE, anchor |-> TRUE,  href |-> TRUE],
      [titleDiv |-> FALSE, titleP |-> TRUE,  anchor |-> TRUE,  href |-> TRUE],
      [titleDiv |-> FALSE, titleP |-> FALSE, anchor |-> TRUE,  href |-> TRUE],
      [titleDiv |-> TRUE,  titleP |-> FALSE, anchor |-> TRUE,  href |-> FALSE],
      [titleDiv |-> TRUE,  titleP |-> FALSE, anchor |-> FALSE, href |-> FALSE] }

PriceShapes ==
    { [pricing |-> TRUE,  rents |-> FALSE, range |-> FALSE, special |-> FALSE,
       addresses |-> 1],
      [pricing |-> FALSE, rents |-> TRUE,  range |-> TRUE,  special |-> TRUE,
       addresses |-> 2] }

CardShapes == {t @@ q : t \in TitleLinkShapes, q \in PriceShapes}

\* the cards of page `page` whose shapes are f[1], f[2], ...: card i has id
\* <<page, i>>
WithIds(f, page) == [i \in 1..Len(f) |-> [id |-> <<page, i>>] @@ f[i]]

\* the sequences of at most n shapes
ShapeSeqs(shapes, n) == UNION {[1..k -> shapes] : k \in 0..n}

\* the contents page `page` may have with at most n cards
PagesOf(shapes, n, page) == {WithIds(f, page) : f \in ShapeSeqs(shapes, n)}

\* get_price(p)
get_price(p) ==
    LET price == IF p.pricing THEN <<<<"pricing", p.id>>>>
                 ELSE IF p.rents THEN <<<<"rents", p.id>>>>
                 ELSE IF p.range THEN <<<<"range", p.id>>>>
                 ELSE <<>>
    IN  IF p.special THEN price \o <<<<" ", 0>>, <<"specials", p.id>>>>
        ELSE price

\* parse_property(p) raises: None has no .text (no title element), None has
\* no .attrs (no a.property-link), or attrs has no 'href' (attrs.get('href')
\* would not raise)
ParseRaises_hrefOptional(p) ==
    \/ ~(p.titleDiv \/ p.titleP)
    \/ ~p.anchor

ParseRaises(p) ==
    \/ ~(p.titleDiv \/ p.titleP)
    \/ ~p.anchor
    \/ ~p.href

\* parse_property(p), when it does not raise
parse_property(p) ==
    [ yelp_review |-> None, yelp_rating |-> None, yelp_link |-> None,
      google_review |-> None, google_rating |-> None, google_link |-> None,
      price |-> get_price(p),
      title |-> p.id,
      location |-> [i \in 1..p.addresses |-> <<"address", p.id, i>>],
      link |-> IF p.href THEN Some(p.id) ELSE None ]

\* the loop of get_page over the cards: the list it returns
RECURSIVE PageRecords(_)
PageRecords(properties) ==
    IF properties = <<>> THEN <<>>
    ELSE LET p == properties[1]
             rest == PageRecords(Tail(properties))
         IN  IF ParseRaises(p) THEN rest
             ELSE <<parse_property(p)>> \o rest

\* the number of logger.error lines of the loop
RECURSIVE PageErrorCount(_)
PageErrorCount(properties) ==
    IF properties = <<>> THEN 0
    ELSE (IF ParseRaises(properties[1]) THEN 1 ELSE 0)
            + PageErrorCount(Tail(properties))

\* get_page(page), the page fetched holding the cards `placards`
GetPage ==
    /\ pageRet = NotCalled
    /\ pageRet' = Returned(PageRecords(placards))
    /\ pageErrors' = PageErrorCount(placards)
    /\ UNCHANGED placards
    /\ UNCHANGED notGetPage

GetPageIdle ==
    /\ placards = <<>>
    /\ pageRet = NotCalled
    /\ pageErrors = 0

(***************************************************************************)
(* Apartment.get_list                                                      *)
(***************************************************************************)
\* range(self.pages[0], self.pages[1] + 1)
RangePages == pageRange[1]..pageRange[2]

\* the card shapes of the pages of a site: one that parses and one that does
\* not.  A page of a multi-page site holds one card.
ListShapes ==
    { [titleDiv |-> TRUE, titleP |-> FALSE, anchor |-> TRUE, href |-> TRUE,
       pricing |-> TRUE, rents |-> FALSE, range |-> FALSE, special |-> FALSE,
       addresses |-> 1],
      [titleDiv |-> FALSE, titleP |-> FALSE, anchor |-> TRUE, href |-> TRUE,
       pricing |-> TRUE, rents |-> FALSE, range |-> FALSE, special |-> FALSE,
       addresses |-> 1] }

ListIdle ==
    /\ pageRange = <<1, 0>>
    /\ site = <<>>
    /\ futures = <<>>
    /\ completed = <<>>
    /\ awaited = 0
    /\ ret = <<>>
    /\ listRet = NotCalled

\* get_list up to its loop: one task per page of the range is submitted.  With
\* an empty range the loop has nothing to wait for and get_list returns [].
SubmitPages ==
    /\ listRet = NotCalled
    /\ futures = <<>>
    /\ awaited = 0
    /\ futures' = [p \in RangePages |-> NotCalled]
    /\ listRet' = IF RangePages = {} THEN Returned(<<>>) ELSE listRet
    /\ UNCHANGED <<pageRange, site, completed, awaited, ret>>
    /\ UNCHANGED notList

\* the task of page p runs get_page(p) to its end
RunPage(p) ==
    /\ p \in DOMAIN futures
    /\ futures[p] = NotCalled
    /\ futures' = [futures EXCEPT ![p] = Returned(PageRecords(site[p]))]
    /\ completed' = Append(completed, p)
    /\ UNCHANGED <<pageRange, site, awaited, ret, listRet>>
    /\ UNCHANGED notList

\* the task of page p ends with an exception: requests.get in _soup raises
FailPage(p) ==
    /\ p \in DOMAIN futures
    /\ futures[p] = NotCalled
    /\ futures' = [futures EXCEPT ![p] = Raised]
    /\ completed' = Append(completed, p)
    /\ UNCHANGED <<pageRange, site, awaited, ret, listRet>>
    /\ UNCHANGED notList

\* the page whose future the loop `for r in results` waits for next: as_completed
\* would make it the next task to complete
AwaitedPage_asCompleted ==
    IF Len(completed) > awaited THEN completed[awaited + 1] ELSE 0

\* ... in the code it is the next page in submission order
AwaitedPage == pageRange[1] + awaited

\* one round of the loop: r.result() returns the page's list, which extends ret,
\* or re-raises the task's exception, which ends get_list.  After the last round
\* get_list returns ret.
AwaitResult ==
    /\ listRet = NotCalled
    /\ AwaitedPage \in DOMAIN futures
    /\ futures[AwaitedPage] /= NotCalled
    /\ IF futures[AwaitedPage] = Raised
       THEN /\ listRet' = Raised
            /\ UNCHANGED <<awaited, ret>>
       ELSE /\ ret' = ret \o futures[AwaitedPage].value
            /\ awaited' = awaited + 1
            /\ listRet' = IF awaited' = Cardinality(RangePages)
                          THEN Returned(ret')
                          ELSE listRet
    /\ UNCHANGED <<pageRange, site, futures, completed>>
    /\ UNCHANGED notList

(***************************************************************************)
(* get_headers: the function under functools.lru_cache(None)               *)
(***************************************************************************)
ApartmentUrl == "https://www.apartments.com/x"
YelpUrl == "https://www.yelp.com"
Urls == {ApartmentUrl, YelpUrl}

Threads == 1..NThreads

Idle == [pc |-> "idle", url |-> ""]

HeadersIdle ==
    /\ cache = {}
    /\ launched = [u \in Urls |-> 0]
    /\ hthread = [t \in Threads |-> Idle]
    /\ calls = [u \in Urls |-> 0]
    /\ overlapped = {}

\* the cache after the wrapper has stored the result of get_headers(u): a cache
\* that stored nothing would be no cache
CacheWith_nothing(u) == cache

CacheWith(u) == cache \cup {u}

\* Thread t calls get_headers(u): the wrapper looks the key up.  On a hit it
\* returns the cached headers; on a miss the thread enters the function body.
CallHeaders(t, u) ==
    /\ hthread[t] = Idle
    /\ calls[u] < MaxCalls
    /\ calls' = [calls EXCEPT ![u] = @ + 1]
    /\ overlapped' = IF \E o \in Threads : hthread[o].url = u
                     THEN overlapped \cup {u}
                     ELSE overlapped
    /\ hthread' = IF u \in cache THEN hthread
                  ELSE [hthread EXCEPT ![t] = [pc |-> "body", url |-> u]]
    /\ UNCHANGED <<cache, launched>>
    /\ UNCHANGED notHeaders

\* driver = webdriver.Chrome(); driver.get(url): a browser session is launched
LaunchBrowser(t) ==
    /\ hthread[t].pc = "body"
    /\ launched' = [launched EXCEPT ![hthread[t].url] = @ + 1]
    /\ hthread' = [hthread EXCEPT ![t].pc = "launched"]
    /\ UNCHANGED <<cache, calls, overlapped>>
    /\ UNCHANGED notHeaders

\* the body returns the headers and the wrapper stores them under the URL
StoreHeaders(t) ==
    /\ hthread[t].pc = "launched"
    /\ cache' = CacheWith(hthread[t].url)
    /\ hthread' = [hthread EXCEPT ![t] = Idle]
    /\ UNCHANGED <<launched, calls, overlapped>>
    /\ UNCHANGED notHeaders

(***************************************************************************)
(* GoogleMap                                                               *)
(***************************************************************************)
\* The answers of gmaps.find_place: the list under "candidates".  A candidate
\* holds its place_id; "rating" and "user_ratings_total" may be absent (None).
PlaceRatings == {None, Some(0), Some(5), Some(6)}

PlaceCounts == {None, Some(7)}

FirstCandidates ==
    {[place_id |-> "p1", rating |-> r, user_ratings_total |-> n] :
        r \in PlaceRatings, n \in PlaceCounts}

SecondCandidate == [place_id |-> "p2", rating |-> Some(3), user_ratings_total |-> Some(1)]

PlaceResponses ==
    {<<>>} \cup {<<c>> : c \in FirstCandidates}
           \cup {<<c, SecondCandidate>> : c \in FirstCandidates}

\* GoogleMap.__init__
NewGoogleMap == [url |-> None, _rating |-> <<None, None>>]

\* f'https://www.google.com/maps/place/?q=place_id:{place_id}'
MapLink(place_id) == Some(<<"https://www.google.com/maps/place/?q=place_id:", place_id>>)

\* the guard of the property: `if self._rating[0] is None`
RatingUnset(g) == g._rating[1] = None

\* the body of the property for the answer `candidates`: the first candidate
\* is taken, not the last one
QueryRating_lastCandidate(g, candidates) ==
    IF candidates /= <<>>
    THEN [ url |-> MapLink(candidates[Len(candidates)].place_id),
           _rating |-> <<candidates[Len(candidates)].user_ratings_total,
                         candidates[Len(candidates)].rating>> ]
    ELSE g

QueryRating(g, candidates) ==
    IF candidates /= <<>>
    THEN [ url |-> MapLink(candidates[1].place_id),
           _rating |-> <<candidates[1].user_ratings_total, candidates[1].rating>> ]
    ELSE g

(***************************************************************************)
(* Yelp                                                                    *)
(***************************************************************************)
NotFound == Some("Not found")

YelpPage == Some("https://www.yelp.com/biz/x")

\* the answers of the suggestion endpoint: the value of _page_url they lead to.
\* No data, no suggestion and a suggestion without redirectUrl all leave
\* "Not found".
SuggestResponses == {"nodata", "nosuggestion", "noredirect", "redirect"}

PageUrlOf(answer) == IF answer = "redirect" THEN YelpPage ELSE NotFound

\* the markup of the review page: without the a[href="#reviews"] anchor, or
\* with it and the rating element before it
ReviewMarkups == {"absent", "present"}

ReviewOf(markup) ==
    IF markup = "present" THEN <<Some("12 reviews"), Some("4.5")>>
    ELSE <<None, None>>

\* Yelp.__init__
NewYelp == [_page_url |-> None, _headers |-> None, _review |-> <<None, None>>]

MemoIdle ==
    /\ gmap = NewGoogleMap
    /\ yelp = NewYelp
    /\ queries = [places |-> 0, suggest |-> 0, review |-> 0]
    /\ reads = 0

\* a read of GoogleMap.rating
ReadRating ==
    /\ reads < MaxReads
    /\ reads' = reads + 1
    /\ IF RatingUnset(gmap)
       THEN /\ queries' = [queries EXCEPT !.places = @ + 1]
            /\ \E candidates \in PlaceResponses :
                   gmap' = QueryRating(gmap, candidates)
       ELSE UNCHANGED <<gmap, queries>>
    /\ UNCHANGED <<yelp, varsHeaders>>
    /\ UNCHANGED notMemo

\* a read of Yelp.page_url on instance y, the endpoint answering `answer`: the
\* instance after it.  The POST reads Yelp.headers, which sets _headers.
PageUrlRead(y, answer) ==
    IF y._page_url = None
    THEN [y EXCEPT !._page_url = PageUrlOf(answer), !._headers = Some("headers")]
    ELSE y

\* Yelp.headers when a POST is sent (post) by the one thread of this component:
\* with _headers unset it calls get_headers(YelpUrl), which launches a browser
\* unless the lru_cache holds the URL
PostHeaders(post) ==
    IF post /\ yelp._headers = None
    THEN /\ calls' = [calls EXCEPT ![YelpUrl] = @ + 1]
         /\ launched' = [launched EXCEPT
                           ![YelpUrl] = IF YelpUrl \in cache THEN @ ELSE @ + 1]
         /\ cache' = CacheWith(YelpUrl)
         /\ UNCHANGED <<hthread, overlapped>>
    ELSE UNCHANGED varsHeaders

\* a read of Yelp.page_url
ReadPageUrl ==
    /\ reads < MaxReads
    /\ reads' = reads + 1
    /\ \E answer \in SuggestResponses :
           yelp' = PageUrlRead(yelp, answer)
    /\ queries' = [queries EXCEPT
                     !.suggest = IF yelp._page_url = None THEN @ + 1 ELSE @]
    /\ PostHeaders(yelp._page_url = None)
    /\ UNCHANGED gmap
    /\ UNCHANGED notMemo

\* a read of Yelp.review: `self._review[0] is None and
\* self.page_url.startswith('http')` reads page_url first, then the page is
\* fetched and _review is set from its markup
ReadReview ==
    /\ reads < MaxReads
    /\ reads' = reads + 1
    /\ \E answer \in SuggestResponses, markup \in ReviewMarkups :
           LET y == IF yelp._review[1] = None THEN PageUrlRead(yelp, answer)
                    ELSE yelp
               fetch == yelp._review[1] = None /\ y._page_url = YelpPage
           IN  /\ yelp' = IF fetch THEN [y EXCEPT !._review = ReviewOf(markup)]
                          ELSE y
               /\ queries' = [queries EXCEPT
                     !.suggest = IF yelp._review[1] = None /\ yelp._page_url = None
                                 THEN @ + 1 ELSE @,
                     !.review = IF fetch THEN @ + 1 ELSE @]
    /\ PostHeaders(yelp._review[1] = None /\ yelp._page_url = None)
    /\ UNCHANGED gmap
    /\ UNCHANGED notMemo

(***************************************************************************)
(* crawl                                                                   *)
(***************************************************************************)
EnrichLimit == 3

Running == [status |-> "running", value |-> <<>>]

Min(a, b) == IF a <= b THEN a ELSE b

\* the slice [:3] of get_page(1); the list get_list would give is not cut
FirstPosts_uncut(records) == records

FirstPosts(records) == SubSeq(records, 1, Min(EnrichLimit, Len(records)))

\* the answers of find_place the tasks of crawl are given
FullCandidate(r) == [place_id |-> "p1", rating |-> Some(r), user_ratings_total |-> Some(7)]

BareCandidate == [place_id |-> "p1", rating |-> None, user_ratings_total |-> None]

CrawlResponses ==
    { <<>>, <<FullCandidate(5)>>, <<FullCandidate(6)>>, <<BareCandidate>>,
      <<FullCandidate(5), SecondCandidate>> }

\* _get_google_result(post), find_place answering `candidates`: a new GoogleMap,
\* one read of its rating, then its url; the post after the three assignments
GoogleResult(post, candidates) ==
    LET g == IF RatingUnset(NewGoogleMap)
             THEN QueryRating(NewGoogleMap, candidates)
             ELSE NewGoogleMap
    IN  [post EXCEPT !.google_review = g._rating[1],
                     !.google_rating = g._rating[2],
                     !.google_link = g.url]

CrawlIdle ==
    /\ listing = <<>>
    /\ posts = <<>>
    /\ gfut = <<>>
    /\ answers = <<>>
    /\ gdone = <<>>
    /\ joined = 0
    /\ results = <<>>
    /\ crawlRet = NotCalled
    /\ html = NotCalled

\* crawl up to its loop: posts = get_page(1)[:3], one task per post.  Without
\* posts the loop has nothing to wait for and crawl returns [].
CrawlStart ==
    /\ crawlRet = NotCalled
    /\ posts' = FirstPosts(PageRecords(listing))
    /\ gfut' = [i \in DOMAIN posts' |-> "pending"]
    /\ answers' = [i \in DOMAIN posts' |-> None]
    /\ crawlRet' = IF posts' = <<>> THEN Returned(<<>>) ELSE Running
    /\ UNCHANGED <<listing, gdone, joined, results, html>>
    /\ UNCHANGED notCrawl

\* the task of post i runs to its end
GoogleTask(i) ==
    /\ i \in DOMAIN gfut
    /\ gfut[i] = "pending"
    /\ \E candidates \in CrawlResponses :
           /\ posts' = [posts EXCEPT ![i] = GoogleResult(@, candidates)]
           /\ answers' = [answers EXCEPT ![i] = Some(candidates)]
    /\ gfut' = [gfut EXCEPT ![i] = "done"]
    /\ gdone' = Append(gdone, i)
    /\ UNCHANGED <<listing, joined, results, crawlRet, html>>
    /\ UNCHANGED notCrawl

\* the task of post i ends with an exception: find_place raises
GoogleTaskFails(i) ==
    /\ i \in DOMAIN gfut
    /\ gfut[i] = "pending"
    /\ gfut' = [gfut EXCEPT ![i] = "failed"]
    /\ gdone' = Append(gdone, i)
    /\ UNCHANGED <<listing, posts, answers, joined, results, crawlRet, html>>
    /\ UNCHANGED notCrawl

\* one round of [fut.result() for fut in futures.as_completed(google_futs)]:
\* the next completed future gives its post or re-raises.  After the last round
\* crawl returns the list.
JoinResult ==
    /\ crawlRet = Running
    /\ joined < Len(gdone)
    /\ LET i == gdone[joined + 1]
       IN  IF gfut[i] = "failed"
           THEN /\ crawlRet' = Raised
                /\ UNCHANGED <<joined, results>>
           ELSE /\ results' = Append(results, posts[i])
                /\ joined' = joined + 1
                /\ crawlRet' = IF joined' = Len(posts) THEN Returned(results')
                               ELSE Running
    /\ UNCHANGED <<listing, posts, gfut, answers, gdone, html>>
    /\ UNCHANGED notCrawl

(***************************************************************************)
(* to_html                                                                 *)
(***************************************************************************)
\* the text an f-string writes for {v}: str(None) is 'None'; another value is
\* written as it is
str(v) == IF v = None THEN <<"N", "o", "n", "e">> ELSE v

\* ', '.join(texts)
RECURSIVE JoinComma(_)
JoinComma(texts) ==
    IF Len(texts) = 0 THEN <<>>
    ELSE IF Len(texts) = 1 THEN <<texts[1]>>
    ELSE <<texts[1], <<", ", <<0, 0>>, 0>>>> \o JoinComma(Tail(texts))

\* the columns of the header row
HeaderRow ==
    <<"yelp_rating", "yelp_review", "google_rating", "google_review", "price",
      "title", "location">>

\* the row of one post: the text of each cell, and the href of each link
Row(post) ==
    [ yelp_rating |-> str(post.yelp_rating),
      yelp_link |-> str(post.yelp_link),
      yelp_review |-> str(post.yelp_review),
      google_rating |-> str(post.google_rating),
      google_link |-> str(post.google_link),
      google_review |-> str(post.google_review),
      price |-> post.price,
      link |-> str(post.link),
      title |-> <<post.title>>,
      location |-> JoinComma(post.location) ]

to_html(ps) == [header |-> HeaderRow, rows |-> [i \in DOMAIN ps |-> Row(ps[i])]]

\* __main__: f.write(to_html(crawl(url)))
ToHtml ==
    /\ crawlRet.status = "returned"
    /\ html = NotCalled
    /\ html' = Returned(to_html(crawlRet.value))
    /\ UNCHANGED <<listing, posts, gfut, answers, gdone, joined, results, crawlRet>>
    /\ UNCHANGED notCrawl

(***************************************************************************)
(* The specifications.                                                     *)
(***************************************************************************)
InitPages ==
    /\ span \in Spans
    /\ _pages = None
    /\ pagesRet = NotCalled
    /\ soupCalls = 0
    /\ GetPageIdle /\ ListIdle /\ HeadersIdle /\ MemoIdle /\ CrawlIdle

NextPages == ReadPages

SpecPages == InitPages /\ [][NextPages]_vars

InitGetPage ==
    /\ placards \in PagesOf(CardShapes, MaxPlacards, 1)
    /\ pageRet = NotCalled
    /\ pageErrors = 0
    /\ PagesIdle /\ ListIdle /\ HeadersIdle /\ MemoIdle /\ CrawlIdle

NextGetPage == GetPage

SpecGetPage == InitGetPage /\ [][NextGetPage]_vars

InitList ==
    /\ pageRange \in {<<f, l>> : f \in 1..2, l \in 1..MaxPage}
    /\ site \in {[p \in 1..MaxPage |-> WithIds(<<g[p]>>, p)] :
                      g \in [1..MaxPage -> ListShapes]}
    /\ futures = <<>>
    /\ completed = <<>>
    /\ awaited = 0
    /\ ret = <<>>
    /\ listRet = NotCalled
    /\ PagesIdle /\ GetPageIdle /\ HeadersIdle /\ MemoIdle /\ CrawlIdle

NextList ==
    \/ SubmitPages
    \/ \E p \in 1..MaxPage : RunPage(p)
    \/ \E p \in 1..MaxPage : FailPage(p)
    \/ AwaitResult

SpecList == InitList /\ [][NextList]_vars

InitHeaders ==
    /\ HeadersIdle
    /\ PagesIdle /\ GetPageIdle /\ ListIdle /\ MemoIdle /\ CrawlIdle

NextHeaders ==
    \/ \E t \in Threads, u \in Urls : CallHeaders(t, u)
    \/ \E t \in Threads : LaunchBrowser(t)
    \/ \E t \in Threads : StoreHeaders(t)

SpecHeaders == InitHeaders /\ [][NextHeaders]_vars

InitMemo ==
    /\ MemoIdle
    /\ HeadersIdle
    /\ PagesIdle /\ GetPageIdle /\ ListIdle /\ CrawlIdle

NextMemo ==
    \/ ReadRating
    \/ ReadPageUrl
    \/ ReadReview

SpecMemo == InitMemo /\ [][NextMemo]_vars

InitCrawl ==
    /\ listing \in PagesOf(ListShapes, MaxCards, 1)
    /\ posts = <<>>
    /\ gfut = <<>>
    /\ answers = <<>>
    /\ gdone = <<>>
    /\ joined = 0
    /\ results = <<>>
    /\ crawlRet = NotCalled
    /\ html = NotCalled
    /\ PagesIdle /\ GetPageIdle /\ ListIdle /\ HeadersIdle /\ MemoIdle

NextCrawl ==
    \/ CrawlStart
    \/ \E i \in 1..MaxCards : GoogleTask(i)
    \/ \E i \in 1..MaxCards : GoogleTaskFails(i)
    \/ JoinResult
    \/ ToHtml

SpecCrawl == InitCrawl /\ [][NextCrawl]_vars

(***************************************************************************)
(* The properties checked.                                                 *)
(***************************************************************************)
\* the lists of the pages of `order`, one after the other
RECURSIVE ConcatPages(_)
ConcatPages(order) ==
    IF order = <<>> THEN <<>>
    ELSE futures[order[1]].value \o ConcatPages(Tail(order))

\* the pages of the range in page order
PageOrder == [k \in 1..Cardinality(RangePages) |-> pageRange[1] + k - 1]

\* C1 (SpecList): when get_list has ended over a range of at least two pages
\* of which exactly one page's task raised and all the others returned, it has
\* returned, and its list holds the listings of every other page.
C1_FailedPageKeepsSiblings ==
    \A f \in RangePages :
        ( /\ listRet /= NotCalled
          /\ Cardinality(RangePages) >= 2
          /\ futures[f] = Raised
          /\ \A p \in RangePages \ {f} : futures[p].status = "returned" )
        => /\ listRet.status = "returned"
           /\ \A p \in RangePages \ {f} :
                  \A k \in DOMAIN futures[p].value :
                      \E j \in DOMAIN listRet.value :
                          listRet.value[j] = futures[p].value[k]

\* C2 (SpecPages): a read of Apartment.pages returns [X, Y] for the marker text
\* "Page X of Y" with X and Y positive, and [1, 1] when page 1 has no pageRange
\* span or a text the pattern does not match.
C2_PagesParsesMarker ==
    pagesRet /= NotCalled =>
        /\ \A x, y \in DigitTexts :
               (int(x) > 0 /\ int(y) > 0 /\ span = Some(PageText(x, y)))
               => pagesRet = Returned(<<int(x), int(y)>>)
        /\ (span = NoSpan \/ \E t \in OtherTexts : span = Some(t))
               => pagesRet = Returned(<<1, 1>>)

\* C3 (SpecMemo): whatever the services answered, after any number of reads of
\* GoogleMap.rating, Yelp.page_url and Yelp.review on one instance each, the
\* places search, the suggestion POST and the review-page GET have each been
\* issued at most once.
C3_QueryAtMostOnce ==
    /\ queries.places <= 1
    /\ queries.suggest <= 1
    /\ queries.review <= 1

\* a card that parse_property can parse: a title element, a link element and
\* its href
Parseable(c) == (c.titleDiv \/ c.titleP) /\ c.anchor /\ c.href

\* the number of cards of page 1 that can be parsed
ParseableCount == Cardinality({i \in DOMAIN listing : Parseable(listing[i])})

\* find_place answered every task with a first candidate that has a rating and
\* a rating count
AllAnswersRated ==
    \A i \in DOMAIN answers :
        /\ answers[i] /= None
        /\ answers[i][1] /= <<>>
        /\ answers[i][1][1].rating /= None
        /\ answers[i][1][1].user_ratings_total /= None

\* C4 (SpecCrawl): when page 1 yields k cards that parse and find_place answers
\* every title with a candidate that has a rating and a rating count, crawl
\* returns exactly min(k, 3) records, each with its three google fields set and
\* its three yelp fields None.
C4_CrawlEnrichesFirstThree ==
    (crawlRet.status \in {"returned", "raised"} /\ AllAnswersRated)
    => /\ crawlRet.status = "returned"
       /\ Len(crawlRet.value) = Min(ParseableCount, 3)
       /\ \A j \in DOMAIN crawlRet.value :
              /\ crawlRet.value[j].google_rating /= None
              /\ crawlRet.value[j].google_review /= None
              /\ crawlRet.value[j].google_link /= None
              /\ crawlRet.value[j].yelp_review = None
              /\ crawlRet.value[j].yelp_rating = None
              /\ crawlRet.value[j].yelp_link = None

C4_Witness ==
    /\ crawlRet.status = "returned"
    /\ AllAnswersRated
    /\ ParseableCount = 4
    /\ Len(listing) = 4
    /\ Len(crawlRet.value) = 3
    /\ crawlRet.value[1].title /= listing[1].id

\* C5 (SpecCrawl): to_html returns for the records of crawl, and the cell (or
\* href) it writes for a review field that is None holds no text.
C5_NullFieldsRenderEmpty ==
    html /= NotCalled =>
        /\ html.status = "returned"
        /\ \A j \in DOMAIN html.value.rows :
               LET post == crawlRet.value[j]
                   row == html.value.rows[j]
               IN  /\ post.yelp_rating = None => Len(row.yelp_rating) = 0
                   /\ post.yelp_review = None => Len(row.yelp_review) = 0
                   /\ post.yelp_link = None => Len(row.yelp_link) = 0
                   /\ post.google_rating = None => Len(row.google_rating) = 0
                   /\ post.google_review = None => Len(row.google_review) = 0
                   /\ post.google_link = None => Len(row.google_link) = 0

\* C6 (SpecGetPage): get_page returns (it does not raise), and the list it
\* returns holds exactly the records of the cards that parse, in the order of
\* the cards; every other card is logged and dropped.
C6_BadCardsDropped ==
    pageRet /= NotCalled =>
        /\ pageRet.status = "returned"
        /\ LET good == SelectSeq(placards, Parseable)
           IN  /\ Len(pageRet.value) = Len(good)
               /\ \A j \in DOMAIN good :
                      /\ pageRet.value[j].title = good[j].id
                      /\ pageRet.value[j].link = Some(good[j].id)
               /\ pageErrors = Len(placards) - Len(good)

C6_Witness ==
    /\ pageRet.status = "returned"
    /\ Len(placards) = 3
    /\ ~Parseable(placards[1])
    /\ ~placards[2].href
    /\ Parseable(placards[3])
    /\ Len(pageRet.value) = 1

\* C7 as stated (SpecList): the list get_list returns is the pages' lists in
\* the order the tasks completed.
C7_CompletionOrder ==
    listRet.status = "returned" => listRet.value = ConcatPages(completed)

\* C7 as amended (SpecList): get_list has submitted one task per page of the
\* range, and the list it returns is the pages' lists in page order, whatever
\* the order the tasks completed in.
C7_PageOrder ==
    /\ listRet /= NotCalled => DOMAIN futures = RangePages
    /\ listRet.status = "returned" => listRet.value = ConcatPages(PageOrder)

C7_Witness ==
    /\ listRet.status = "returned"
    /\ Len(listRet.value) >= 2
    /\ completed /= PageOrder
    /\ ConcatPages(completed) /= listRet.value

\* C8 (SpecCrawl): the rating crawl writes into a record is a value within
\* [0, 5], or it is None together with the rating count (the pair [None, None]).
C8_RatingInRange ==
    \A i \in DOMAIN posts :
        \/ posts[i].google_rating = None /\ posts[i].google_review = None
        \/ /\ posts[i].google_rating /= None
           /\ posts[i].google_rating[1] \in 0..5

\* the answer task i got for the record rec of crawl
AnswerOf(rec) ==
    LET i == CHOOSE k \in DOMAIN posts : posts[k].title = rec.title
    IN  answers[i][1]

\* C9 (SpecCrawl): no task that got an answer raised; a record crawl returns
\* whose search had no candidates has the google rating, review count and link
\* None; the link of a returned record is set exactly when the search had a
\* candidate, and is the map link of the first candidate's place_id.
C9_LinkIffCandidate ==
    /\ \A i \in DOMAIN answers : answers[i] /= None => gfut[i] = "done"
    /\ crawlRet.status = "returned" =>
           \A j \in DOMAIN crawlRet.value :
               LET rec == crawlRet.value[j]
                   candidates == AnswerOf(rec)
               IN  /\ candidates = <<>> =>
                          /\ rec.google_rating = None
                          /\ rec.google_review = None
                          /\ rec.google_link = None
                   /\ rec.google_link /= None <=> candidates /= <<>>
                   /\ candidates /= <<>> =>
                          rec.google_link = MapLink(candidates[1].place_id)

C9_Witness ==
    /\ crawlRet.status = "returned"
    /\ \E j \in DOMAIN crawlRet.value :
           /\ AnswerOf(crawlRet.value[j]) = <<>>
           /\ crawlRet.value[j].google_link = None
    /\ \E j \in DOMAIN crawlRet.value :
           /\ Len(AnswerOf(crawlRet.value[j])) = 2
           /\ crawlRet.value[j].google_link = MapLink("p1")

====
